---- MODULE Spec2Model ----
(***************************************************************************)
(* Model of Experiment.sweep_field / _sweep_parameter / readXY of MOKE.py. *)
(*                                                                         *)
(* Units.  Sensitivities are integers in units of 100 uV (0.0002 V = 2,    *)
(* 0.002 V = 20).  Delays are integers in units of 10 ms (0.02 s = 2,      *)
(* 3 s = 300, 4 s = 400).  Fields are integers in Oe.  A current is the    *)
(* exact quotient [n |-> field, d |-> 193]; an averaged reading is the     *)
(* exact quotient [n |-> sum of samples, d |-> number of samples], and     *)
(* d = 0 is numpy's nan (the mean of no samples).  Floating-point rounding *)
(* is not modelled.                                                        *)
(***************************************************************************)
EXTENDS Integers, Sequences, FiniteSets, TLC

(* ------------------------------ bounds -------------------------------- *)

\* longest field sequence a caller passes
MaxN == 2
\* largest read_reps override a caller passes
MaxReps == 2
\* magnitude of the loud lock-in sample (100 uV units)
MaxRead == 17
\* number of sweep_field calls in one session of the SpecFiles specification
MaxSweeps == 3

(* --------------------------- plain helpers ---------------------------- *)

Abs(x) == IF x < 0 THEN -x ELSE x

Max2(a, b) == IF a >= b THEN a ELSE b

Last(s) == s[Len(s)]

\* all sequences over S of length 0..n
SeqsUpTo(S, n) == UNION {[1..k -> S] : k \in 0..n}

\* a Python None and a Python value, as parameters hold them
None == <<>>

Some(v) == <<v>>

\* what a caller writes for one keyword parameter: nothing, or an argument
Omitted == [given |-> FALSE, arg |-> None]

Given(a) == [given |-> TRUE, arg |-> a]

\* numpy's nan
NaN == [n |-> 0, d |-> 0]

(* ------------------------- unit converter ----------------------------- *)

\* the calibration constant of field2current / current2field
K == 193

\* field2current: field / 193
field2current(field) == [n |-> field, d |-> K]

\* current2field: current * 193
current2field(current) == (current.n * K) \div current.d

(* ------------------------ parameter resolver -------------------------- *)

\* the keyword defaults of sweep_field's signature
SignatureDefault(knob) == IF knob = "sen" THEN Some(20) ELSE None

\* Python's binding of one keyword parameter of sweep_field
Bind(knob, a) == IF a.given THEN a.arg ELSE SignatureDefault(knob)

get_sen(s, sen) == IF sen = None THEN s.sen ELSE sen[1]

get_sen_delay(s, sen_delay) == IF sen_delay = None THEN s.sen_delay ELSE sen_delay[1]

get_read_reps(s, read_reps) == IF read_reps = None THEN s.read_reps ELSE read_reps[1]

get_rep_delay(s, rep_delay) == IF rep_delay = None THEN s.rep_delay ELSE rep_delay[1]

get_read_delay(s, read_delay) == IF read_delay = None THEN s.read_delay ELSE read_delay[1]

get_from0delay(s, from0delay) == IF from0delay = None THEN s.from0delay ELSE from0delay[1]

(* --------------------------- sweep plan ------------------------------- *)

Negate(F) == [j \in 1..Len(F) |-> -F[j]]

MirrorPlan_Reversed(F) == F \o [j \in 1..Len(F) |-> -F[Len(F) + 1 - j]]

\* fields = np.concatenate((fields, -fields))
MirrorPlan(F) == F \o Negate(F)

Currents(plan) == [j \in 1..Len(plan) |-> field2current(plan[j])]

(* ------------------------- lock-in amplifier -------------------------- *)

\* the full-scale ranges of the amplifier, most sensitive first
SenLevels == <<2, 5, 10, 20, 50>>

LevelOf(sen) == CHOOSE l \in 1..Len(SenLevels) : SenLevels[l] = sen

\* LIA.decrease_sensitivity(): one level towards the larger full-scale range
decrease_sensitivity(sen) ==
    IF LevelOf(sen) < Len(SenLevels) THEN SenLevels[LevelOf(sen) + 1] ELSE sen

\* the (X, Y) pairs LIA.getXY() can return: a quiet and a loud sample
Samples == {<<1, -2>>, <<3, -MaxRead>>}

(* ------------------------- acquisition engine ------------------------- *)

RECURSIVE SumSeq(_)
SumSeq(s) == IF s = <<>> THEN 0 ELSE s[1] + SumSeq(Tail(s))

\* np.mean(arr)
Mean(arr) == IF arr = <<>> THEN NaN ELSE [n |-> SumSeq(arr), d |-> Len(arr)]

sen_ratio_exceeds_XOnly(Xval, Yval, SEN) ==
    /\ Xval.d > 0
    /\ 5 * Abs(Xval.n) > 4 * SEN * Xval.d

\* sen_ratio = abs(max(abs(Xval), abs(Yval))) / self.LIA.SEN ; sen_ratio > 0.8
\* (both means share the denominator read_reps; a nan ratio compares False)
sen_ratio_exceeds(Xval, Yval, SEN) ==
    /\ Xval.d > 0
    /\ 5 * Abs(Max2(Abs(Xval.n), Abs(Yval.n))) > 4 * SEN * Xval.d

GainAfterRead_Increase(Xval, Yval, SEN) ==
    IF sen_ratio_exceeds(Xval, Yval, SEN) /\ LevelOf(SEN) > 1
    THEN SenLevels[LevelOf(SEN) - 1]
    ELSE SEN

GainAfterRead_TwoSteps(Xval, Yval, SEN) ==
    IF sen_ratio_exceeds(Xval, Yval, SEN)
    THEN decrease_sensitivity(decrease_sensitivity(SEN))
    ELSE SEN

\* lines 390-392 of readXY: the amplifier's range after the gain check
GainAfterRead(Xval, Yval, SEN) ==
    IF sen_ratio_exceeds(Xval, Yval, SEN) THEN decrease_sensitivity(SEN) ELSE SEN

SessionAfterRead_TrackGain(s, newSEN) == [s EXCEPT !.sen = newSEN]

\* readXY and the step-down leave the Experiment's stored defaults alone:
\* lines 377-379 rebind locals, line 392 commands the amplifier only
SessionAfterRead(s, newSEN) == s

(* --------------------------- artifact names --------------------------- *)

\* A file name is the sequence of counters suffixed to the base name "test":
\* <<>> is test, <<1>> is test_(1), <<1, 2>> is test_(1)_(2).
Path(filename, ext) == [name |-> filename, ext |-> ext]

RECURSIVE NameLoop(_, _, _, _)
NameLoop(fs, filename, ext, counter) ==
    IF Path(filename, ext) \in DOMAIN fs
    THEN NameLoop(fs, Append(filename, counter), ext, counter + 1)
    ELSE filename

UniqueName_IfOnce(fs, filename, ext) ==
    IF Path(filename, ext) \in DOMAIN fs THEN Append(filename, 1) ELSE filename

\* counter = 1; while os.path.exists(save_path): filename += '_({})'; counter += 1
UniqueName(fs, filename, ext) == NameLoop(fs, filename, ext, 1)

WriteFile(fs, p, content) ==
    [q \in (DOMAIN fs) \cup {p} |-> IF q = p THEN content ELSE fs[q]]

NoFiles == [q \in {} |-> 0]

(* ------------------------- closed-loop rows --------------------------- *)

CloseRows_Last(arr, close_loop, last) ==
    IF close_loop /\ last THEN Append(arr, Last(arr)) ELSE arr

\* if close_loop: if i == len(params) - 1: arr = np.append(arr, arr[0])
CloseRows(arr, close_loop, last) ==
    IF close_loop /\ last THEN Append(arr, arr[1]) ELSE arr

PlotX_NoClosingPoint(xr, close_loop, last, i) ==
    SubSeq(xr, 1, IF i + 1 <= Len(xr) THEN i + 1 ELSE Len(xr))

\* the x data handed to _update_sweep_plot at step i (0-based)
PlotX(xr, close_loop, last, i) ==
    IF close_loop /\ last
    THEN SubSeq(xr, 1, IF i + 2 <= Len(xr) THEN i + 2 ELSE Len(xr))
    ELSE SubSeq(xr, 1, IF i + 1 <= Len(xr) THEN i + 1 ELSE Len(xr))

(* ------------------------------ state --------------------------------- *)

VARIABLES
    self,        \* the session defaults stored on the Experiment
    LIA_SEN,     \* the amplifier's full-scale range (self.LIA.SEN)
    PS_current,  \* the output last commanded to the power supply
    fig,         \* self.fig: "none" (never made), "open" or "closed"
    dirExists,   \* os.path.isdir(save_dir)
    files,       \* the files of save_dir: path -> what wrote it
    session,     \* which calls the caller makes, and how many
    sweepNo,     \* number of sweep_field calls made so far
    call,        \* the arguments of the current call, as the caller wrote them
    args,        \* the parameters of the current call, as Python bound them
    fields,      \* sweep_field's local fields
    currents,    \* sweep_field's local currents
    filename,    \* sweep_field's local filename
    i,           \* _sweep_parameter's loop index (0-based)
    X_array,     \* _sweep_parameter's X_array
    Y_array,     \* _sweep_parameter's Y_array
    xrange,      \* _sweep_parameter's xrange
    X_arr,       \* readXY's X_arr
    Y_arr,       \* readXY's Y_arr
    df,          \* the table handed to to_csv by the current call
    pc,          \* where the current call stands
    error,       \* the exception the current call raised
    events,      \* the instrument commands, sleeps and plot updates of the call
    senSeen      \* self.LIA.SEN as read on line 390, one per finished readXY

vars == <<self, LIA_SEN, PS_current, fig, dirExists, files, session, sweepNo, call,
          args, fields, currents, filename, i, X_array, Y_array, xrange, X_arr,
          Y_arr, df, pc, error, events, senSeen>>

Ev(op, v) == [op |-> op, v |-> v]

Zero == [n |-> 0, d |-> 1]

NoError == [kind |-> "", stage |-> "", index |-> 0]

Raise(kind, stage, index) == [kind |-> kind, stage |-> stage, index |-> index]

NoTable == [current_A |-> <<>>, field_Oe |-> <<>>, X |-> <<>>, Y |-> <<>>]

(* ---------------------------- the callers ----------------------------- *)

CallRec(F, name, close_loop, livefig, savefig, closefig, sen, sen_delay, read_reps, rep_delay, read_delay, from0delay) ==
    [fields |-> F, filename |-> name, close_loop |-> close_loop, livefig |-> livefig,
     savefig |-> savefig, closefig |-> closefig, sen |-> sen, sen_delay |-> sen_delay,
     read_reps |-> read_reps, rep_delay |-> rep_delay, read_delay |-> read_delay,
     from0delay |-> from0delay]

FieldVals == {10, 20}

SenArgs == {Omitted, Given(None), Given(Some(5))}

DelayArgs == {Omitted, Given(Some(0)), Given(Some(7))}

RepsArgs == {Omitted, Given(Some(0)), Given(Some(MaxReps))}

\* sweeps over every field sequence, closed or not, at every starting range
AcqCalls ==
    {CallRec(F, <<>>, cl, TRUE, TRUE, FALSE, s, Omitted, Omitted, Omitted, Omitted, Omitted) :
        F \in SeqsUpTo(FieldVals, MaxN), cl \in BOOLEAN, s \in SenArgs}

\* one-field sweeps with every combination of the six knobs
KnobCalls ==
    {CallRec(<<10>>, <<>>, k[7], TRUE, TRUE, FALSE, k[1], k[2], k[3], k[4], k[5], k[6]) :
        k \in SenArgs \X DelayArgs \X RepsArgs \X DelayArgs \X DelayArgs \X DelayArgs \X BOOLEAN}

\* sweeps with every combination of the four flags
FlagCalls ==
    {CallRec(F, <<>>, b[1], b[2], b[3], b[4], Omitted, Omitted, Omitted, Omitted, Omitted, Omitted) :
        F \in {<<>>, <<20, 10>>}, b \in BOOLEAN \X BOOLEAN \X BOOLEAN \X BOOLEAN}

\* repeated sweeps into one directory, under two base names
FileCalls ==
    {CallRec(<<10>>, name, FALSE, TRUE, sf, FALSE, Omitted, Omitted, Omitted, Omitted, Omitted, Omitted) :
        name \in {<<>>, <<1>>}, sf \in BOOLEAN}

CallsOf(s) == IF s.family = "files" THEN FileCalls ELSE AcqCalls \cup KnobCalls \cup FlagCalls

\* files another program may have left in save_dir
OldPaths == {Path(<<>>, "csv"), Path(<<1>>, "csv"), Path(<<>>, "png")}

(* ------------------------------- Init --------------------------------- *)

\* Experiment.__init__, lines 41-49
InitCommon ==
    /\ self = [sen |-> 2, sen_delay |-> 300, read_reps |-> 1, rep_delay |-> 0,
               read_delay |-> 2, from0delay |-> 400]
    /\ LIA_SEN \in {SenLevels[l] : l \in 1..Len(SenLevels)}
    /\ PS_current = Zero
    /\ fig = "none"
    /\ sweepNo = 0
    /\ call = CallRec(<<>>, <<>>, FALSE, FALSE, FALSE, FALSE,
                      Omitted, Omitted, Omitted, Omitted, Omitted, Omitted)
    /\ args = [sen |-> None, sen_delay |-> None, read_reps |-> None, rep_delay |-> None,
               read_delay |-> None, from0delay |-> None]
    /\ fields = <<>>
    /\ currents = <<>>
    /\ filename = <<>>
    /\ i = 0
    /\ X_array = <<>>
    /\ Y_array = <<>>
    /\ xrange = <<>>
    /\ X_arr = <<>>
    /\ Y_arr = <<>>
    /\ df = NoTable
    /\ pc = "idle"
    /\ error = NoError
    /\ events = <<>>
    /\ senSeen = <<>>

\* one sweep_field call on a fresh Experiment
Init ==
    /\ InitCommon
    /\ session = [family |-> "sweep", calls |-> 1]
    /\ dirExists \in BOOLEAN
    /\ files = NoFiles

\* a session of sweep_field calls into a directory that may hold files
InitFiles ==
    /\ InitCommon
    /\ session = [family |-> "files", calls |-> MaxSweeps]
    /\ dirExists = TRUE
    /\ \E old \in SUBSET OldPaths : files = [q \in old |-> [sweep |-> 0, base |-> q.name]]

(* ------------------------------ actions ------------------------------- *)

ExceptionTarget_Swallowed == "zero"

\* where an exception raised inside the loop of _sweep_parameter takes control:
\* lines 259-280 hold no try/except/finally, so it leaves sweep_field
ExceptionTarget == "raised"

LoopTarget_OffByOne(idx, n) == IF idx + 1 < n - 1 THEN "set" ELSE "zero"

LoopTarget_SkipZero(idx, n) == IF idx + 1 < n THEN "set" ELSE "png"

\* for i, param in enumerate(params): the next pass, or line 282 after the last
LoopTarget(idx, n) == IF idx + 1 < n THEN "set" ELSE "zero"

SweepParams_ClosedFirst(plan, close_loop) ==
    Currents(IF close_loop /\ plan # <<>> THEN Append(plan, plan[1]) ELSE plan)

\* line 222: the params handed to _sweep_parameter are the currents of the
\* mirrored plan; the closing point is appended only afterwards (lines 226-227)
SweepParams(plan, close_loop) == Currents(plan)

\* sweep_field, lines 183-212: bind the parameters, make the directory, build the plan
sweep_field_call ==
    /\ pc \in {"idle", "done", "raised"}
    /\ sweepNo < session.calls
    /\ \E c \in CallsOf(session) :
        /\ call' = c
        /\ args' = [sen |-> Bind("sen", c.sen),
                    sen_delay |-> Bind("sen_delay", c.sen_delay),
                    read_reps |-> Bind("read_reps", c.read_reps),
                    rep_delay |-> Bind("rep_delay", c.rep_delay),
                    read_delay |-> Bind("read_delay", c.read_delay),
                    from0delay |-> Bind("from0delay", c.from0delay)]
        /\ fields' = MirrorPlan(c.fields)
        /\ currents' = SweepParams(MirrorPlan(c.fields), c.close_loop)
        /\ filename' = c.filename
    /\ dirExists' = TRUE
    /\ sweepNo' = sweepNo + 1
    /\ i' = 0
    /\ X_array' = <<>>
    /\ Y_array' = <<>>
    /\ xrange' = <<>>
    /\ X_arr' = <<>>
    /\ Y_arr' = <<>>
    /\ df' = NoTable
    /\ error' = NoError
    /\ events' = <<>>
    /\ senSeen' = <<>>
    /\ pc' = "ramp"
    /\ UNCHANGED <<self, LIA_SEN, PS_current, fig, files, session>>

\* sweep_field, lines 214-220: ramp to the first set-point, wait, make the figure
Ramp ==
    /\ pc = "ramp"
    /\ IF Len(currents) = 0
       THEN /\ pc' = "raised"
            /\ error' = Raise("IndexError", "ramp", 0)
            /\ UNCHANGED <<PS_current, fig, events>>
       ELSE \E ok \in BOOLEAN :
            /\ PS_current' = currents[1]
            /\ IF ok
               THEN /\ events' = events \o <<Ev("set_current", currents[1]),
                                            Ev("sleep_from0delay", get_from0delay(self, args.from0delay))>>
                    /\ fig' = IF call.livefig THEN "open" ELSE fig
                    /\ pc' = "sweep"
                    /\ UNCHANGED error
               ELSE /\ events' = Append(events, Ev("set_current", currents[1]))
                    /\ pc' = "raised"
                    /\ error' = Raise("InstrumentError", "ramp", 0)
                    /\ UNCHANGED fig
    /\ UNCHANGED <<self, LIA_SEN, dirExists, files, session, sweepNo, call, args, fields,
                   currents, filename, i, X_array, Y_array, xrange, X_arr, Y_arr, df, senSeen>>

\* _sweep_parameter, lines 256-257: set the amplifier's range, start the buffers
SweepParameterEntry ==
    /\ pc = "sweep"
    /\ LIA_SEN' = get_sen(self, args.sen)
    /\ events' = Append(events, Ev("SEN", get_sen(self, args.sen)))
    /\ X_array' = <<>>
    /\ Y_array' = <<>>
    /\ xrange' = fields
    /\ i' = 0
    /\ pc' = IF Len(currents) = 0 THEN "zero" ELSE "set"
    /\ UNCHANGED <<self, PS_current, fig, dirExists, files, session, sweepNo, call, args,
                   fields, currents, filename, X_arr, Y_arr, df, error, senSeen>>

\* _sweep_parameter, lines 259-261, and readXY, lines 377-381
StepSet ==
    /\ pc = "set"
    /\ \E ok \in BOOLEAN :
        /\ PS_current' = currents[i + 1]
        /\ IF ok
           THEN /\ events' = events \o <<Ev("set_current", currents[i + 1]),
                                        Ev("sleep_read_delay", get_read_delay(self, args.read_delay))>>
                /\ pc' = "read"
                /\ UNCHANGED error
           ELSE /\ events' = Append(events, Ev("set_current", currents[i + 1]))
                /\ pc' = ExceptionTarget
                /\ error' = Raise("InstrumentError", "stepping", i)
    /\ X_arr' = <<>>
    /\ Y_arr' = <<>>
    /\ UNCHANGED <<self, LIA_SEN, fig, dirExists, files, session, sweepNo, call, args, fields,
                   currents, filename, i, X_array, Y_array, xrange, df, senSeen>>

\* readXY, lines 382-386: one pass of the repetition loop
ReadSample ==
    /\ pc = "read"
    /\ Len(X_arr) < get_read_reps(self, args.read_reps)
    /\ \E ok \in BOOLEAN, s \in Samples :
        IF ok
        THEN /\ X_arr' = Append(X_arr, s[1])
             /\ Y_arr' = Append(Y_arr, s[2])
             /\ events' = events \o <<Ev("getXY", [sen |-> LIA_SEN, X |-> s[1], Y |-> s[2]]),
                                     Ev("sleep_rep_delay", get_rep_delay(self, args.rep_delay))>>
             /\ UNCHANGED <<pc, error>>
        ELSE /\ s = CHOOSE q \in Samples : TRUE
             /\ events' = Append(events, Ev("getXY_failed", LIA_SEN))
             /\ pc' = ExceptionTarget
             /\ error' = Raise("InstrumentError", "stepping", i)
             /\ UNCHANGED <<X_arr, Y_arr>>
    /\ UNCHANGED <<self, LIA_SEN, PS_current, fig, dirExists, files, session, sweepNo, call,
                   args, fields, currents, filename, i, X_array, Y_array, xrange, df, senSeen>>

ReturnedXY_LastSample(xs, ys) ==
    IF xs = <<>> THEN <<NaN, NaN>>
    ELSE <<[n |-> Last(xs) * Len(xs), d |-> Len(xs)], [n |-> Last(ys) * Len(ys), d |-> Len(ys)]>>

\* what readXY returns (line 394): Xval, Yval, the means of lines 387-388
ReturnedXY(xs, ys) == <<Mean(xs), Mean(ys)>>

FinishEvents_AppendFirst(exceeded, sen_delay, livefig, nx, nX, nY) ==
    <<Ev("append", nX)>>
    \o (IF exceeded
        THEN <<Ev("decrease_sensitivity", 0), Ev("sleep_sen_delay", sen_delay)>>
        ELSE <<>>)
    \o (IF livefig THEN <<Ev("plot", <<nx, nX, nY>>)>> ELSE <<>>)

\* the events of lines 390-393 and of the plot update of lines 272-279
FinishEvents(exceeded, sen_delay, livefig, nx, nX, nY) ==
    (IF exceeded
     THEN <<Ev("decrease_sensitivity", 0), Ev("sleep_sen_delay", sen_delay)>>
     ELSE <<>>)
    \o <<Ev("append", nX)>>
    \o (IF livefig THEN <<Ev("plot", <<nx, nX, nY>>)>> ELSE <<>>)

\* readXY, lines 387-394, and _sweep_parameter, lines 262-280
FinishRead ==
    /\ pc = "read"
    /\ Len(X_arr) >= get_read_reps(self, args.read_reps)
    /\ LET Xval == Mean(X_arr)
           Yval == Mean(Y_arr)
           exceeded == sen_ratio_exceeds(Xval, Yval, LIA_SEN)
           ret == ReturnedXY(X_arr, Y_arr)
           last == (i = Len(currents) - 1)
           newX == CloseRows(Append(X_array, ret[1]), call.close_loop, last)
           newY == CloseRows(Append(Y_array, ret[2]), call.close_loop, last)
           newxr == IF call.close_loop /\ last
                    THEN Append(xrange, current2field(currents[1]))
                    ELSE xrange
           px == PlotX(newxr, call.close_loop, last, i)
           plotOk == call.livefig => (Len(px) = Len(newX) /\ Len(px) = Len(newY))
       IN  /\ LIA_SEN' = GainAfterRead(Xval, Yval, LIA_SEN)
           /\ self' = SessionAfterRead(self, GainAfterRead(Xval, Yval, LIA_SEN))
           /\ senSeen' = Append(senSeen, LIA_SEN)
           /\ X_array' = newX
           /\ Y_array' = newY
           /\ xrange' = newxr
           /\ events' = events \o FinishEvents(exceeded, get_sen_delay(self, args.sen_delay),
                                               call.livefig, Len(px), Len(newX), Len(newY))
           /\ IF plotOk
              THEN /\ i' = i + 1
                   /\ pc' = LoopTarget(i, Len(currents))
                   /\ UNCHANGED error
              ELSE /\ pc' = "raised"
                   /\ error' = Raise("ValueError", "stepping", i)
                   /\ UNCHANGED i
    /\ UNCHANGED <<PS_current, fig, dirExists, files, session, sweepNo, call, args,
                   fields, currents, filename, X_arr, Y_arr, df>>

\* _sweep_parameter, line 282: self.PS.current = 0
ZeroOutput ==
    /\ pc = "zero"
    /\ PS_current' = Zero
    /\ events' = Append(events, Ev("zero", 0))
    /\ pc' = "png"
    /\ UNCHANGED <<self, LIA_SEN, fig, dirExists, files, session, sweepNo, call, args, fields,
                   currents, filename, i, X_array, Y_array, xrange, X_arr, Y_arr, df, error,
                   senSeen>>

\* _sweep_parameter, lines 284-298: name the image, save it, close the figure
SaveFigure ==
    /\ pc = "png"
    /\ LET name == UniqueName(files, filename, "png")
           noFig == fig = "none" /\ (call.savefig \/ call.closefig)
       IN  /\ files' = IF call.savefig /\ fig # "none"
                       THEN WriteFile(files, Path(name, "png"),
                                      [sweep |-> sweepNo, base |-> filename])
                       ELSE files
           /\ fig' = IF call.closefig /\ fig # "none" THEN "closed" ELSE fig
           /\ events' = IF call.savefig /\ fig # "none"
                        THEN Append(events, Ev("savefig", name))
                        ELSE events
           /\ IF noFig
              THEN /\ pc' = "raised"
                   /\ error' = Raise("AttributeError", "savefig", 0)
              ELSE /\ pc' = "csv"
                   /\ UNCHANGED error
    /\ UNCHANGED <<self, LIA_SEN, PS_current, dirExists, session, sweepNo, call, args, fields,
                   currents, filename, i, X_array, Y_array, xrange, X_arr, Y_arr, df, senSeen>>

\* sweep_field, lines 226-227: the plan's closing point
ClosePlan(s, close_loop) == IF close_loop THEN Append(s, s[1]) ELSE s

\* sweep_field, lines 226-241: close the plan, name the table, write it
WriteCsv ==
    /\ pc = "csv"
    /\ LET cur == ClosePlan(currents, call.close_loop)
           fld == ClosePlan(fields, call.close_loop)
           name == UniqueName(files, filename, "csv")
           sameLen == /\ Len(cur) = Len(fld)
                      /\ Len(cur) = Len(X_array)
                      /\ Len(cur) = Len(Y_array)
       IN  /\ currents' = cur
           /\ fields' = fld
           /\ filename' = name
           /\ IF sameLen
              THEN /\ df' = [current_A |-> cur, field_Oe |-> fld, X |-> X_array, Y |-> Y_array]
                   /\ files' = WriteFile(files, Path(name, "csv"),
                                         [sweep |-> sweepNo, base |-> call.filename])
                   /\ events' = Append(events, Ev("to_csv", name))
                   /\ pc' = "done"
                   /\ UNCHANGED error
              ELSE /\ pc' = "raised"
                   /\ error' = Raise("ValueError", "to_csv", 0)
                   /\ UNCHANGED <<df, files, events>>
    /\ UNCHANGED <<self, LIA_SEN, PS_current, fig, dirExists, session, sweepNo, call, args,
                   i, X_array, Y_array, xrange, X_arr, Y_arr, senSeen>>

Next ==
    \/ sweep_field_call
    \/ Ramp
    \/ SweepParameterEntry
    \/ StepSet
    \/ ReadSample
    \/ FinishRead
    \/ ZeroOutput
    \/ SaveFigure
    \/ WriteCsv

\* one sweep_field call on a fresh Experiment
Spec == Init /\ [][Next]_vars

\* a session of sweep_field calls into one directory
SpecFiles == InitFiles /\ [][Next]_vars

(* ======================= properties of the sweep ====================== *)

\* positions of the log
EvIdx == 1..Len(events)

\* the plan step (1-based) an event belongs to: the number of set-point commands
\* issued up to it, less the ramp command; 0 before stepping starts
StepNo(k) == Cardinality({m \in 1..k : events[m].op = "set_current"}) - 1

\* the positions of the lock-in samples taken in plan step j
GetIdx(j) == {k \in EvIdx : events[k].op = "getXY" /\ StepNo(k) = j}

RECURSIVE SumOver(_, _)
SumOver(S, chan) ==
    IF S = {} THEN 0
    ELSE LET k == CHOOSE q \in S : TRUE
         IN  (IF chan = "X" THEN events[k].v.X ELSE events[k].v.Y) + SumOver(S \ {k}, chan)

\* the set-point commands issued so far, in order
Commanded == [k \in 1..Len(SelectSeq(events, LAMBDA e : e.op = "set_current")) |->
                 SelectSeq(events, LAMBDA e : e.op = "set_current")[k].v]

IsPrefix(s, u) == Len(s) <= Len(u) /\ \A k \in 1..Len(s) : s[k] = u[k]

\* max(|X|,|Y|)/gain > 0.8 for an averaged pair, in exact arithmetic
RatioOver08(X, Y, gain) ==
    /\ X.d > 0
    /\ \/ 5 * Abs(X.n) > 4 * gain * X.d
       \/ 5 * Abs(Y.n) > 4 * gain * Y.d

\* C1: on every exit of a sweep that reached STEPPING (normal return, or an
\* instrument failure at a set-point command or a lock-in read of some step),
\* the output last commanded to the power supply is zero.
C1_ZeroOnEveryExit ==
    (pc = "done" \/ (pc = "raised" /\ error.stage = "stepping")) => PS_current = Zero

\* C2: during one sweep the amplifier's range is never made more sensitive:
\* the ranges read by successive readXY calls, and the range in effect after
\* them, are non-decreasing in full scale.
C2_GainNeverRaised ==
    \A j \in 1..Len(senSeen) :
        /\ j < Len(senSeen) => senSeen[j] <= senSeen[j + 1]
        /\ j = Len(senSeen) => senSeen[j] <= LIA_SEN

C2_Witness ==
    /\ Len(senSeen) >= 3
    /\ senSeen[1] < senSeen[2]
    /\ senSeen[2] = senSeen[3]

\* C3: if the averaged reading of step j has max(|X|,|Y|)/gain > 0.8, the range
\* in effect when step j+1 is read is strictly less sensitive than at step j.
C3_StepDownAfterOverload ==
    \A j \in 1..Len(senSeen) :
        (j < Len(senSeen) /\ RatioOver08(X_array[j], Y_array[j], senSeen[j]))
            => senSeen[j + 1] > senSeen[j]

C3_Witness ==
    \E j \in 1..Len(senSeen) :
        /\ j < Len(senSeen)
        /\ RatioOver08(X_array[j], Y_array[j], senSeen[j])
        /\ 5 * Abs(X_array[j].n) <= 4 * senSeen[j] * X_array[j].d

\* C4: the pair appended for step j is the mean of the samples of step j, all
\* taken at the range in effect before the gain check; once the step-down is
\* commanded no further sample is read in that step.
C4_PreAdjustmentPair ==
    /\ \A j \in 1..Len(senSeen) :
        /\ X_array[j] = (IF GetIdx(j) = {} THEN NaN
                         ELSE [n |-> SumOver(GetIdx(j), "X"), d |-> Cardinality(GetIdx(j))])
        /\ Y_array[j] = (IF GetIdx(j) = {} THEN NaN
                         ELSE [n |-> SumOver(GetIdx(j), "Y"), d |-> Cardinality(GetIdx(j))])
        /\ \A k \in GetIdx(j) : events[k].v.sen = senSeen[j]
    /\ \A k \in EvIdx :
        events[k].op = "decrease_sensitivity" =>
            /\ \A m \in EvIdx : (m > k /\ StepNo(m) = StepNo(k)) => events[m].op # "getXY"
            /\ k + 2 <= Len(events)
            /\ events[k + 1].op = "sleep_sen_delay"
            /\ events[k + 2].op = "append"

C4_Witness ==
    \E k \in EvIdx :
        /\ events[k].op = "decrease_sensitivity"
        /\ Cardinality(GetIdx(StepNo(k))) >= 2
        /\ \E a, b \in GetIdx(StepNo(k)) : events[a].v.X # events[b].v.X
        /\ senSeen[StepNo(k)] # LIA_SEN

\* the set-points the claim expects for field sequence F: the ramp to F[1]/193,
\* then F[1]/193 .. F[N]/193, then -F[1]/193 .. -F[N]/193
ExpectedCommands(F) ==
    IF F = <<>> THEN <<>>
    ELSE <<[n |-> F[1], d |-> K]>>
         \o [j \in 1..Len(F) |-> [n |-> F[j], d |-> K]]
         \o [j \in 1..Len(F) |-> [n |-> -F[j], d |-> K]]

PlanClosed == call.close_loop /\ (pc = "done" \/ error.stage = "to_csv")

\* C5: for an input sequence F of N fields the plan has 2N elements (2N+1 once
\* closed), plan[i] = F[i] and plan[N+i] = -plan[i], and the set-points are
\* commanded in plan order.
C5_MirroredPlan ==
    pc # "idle" =>
        LET N == Len(call.fields)
        IN  /\ Len(fields) = 2 * N + (IF PlanClosed THEN 1 ELSE 0)
            /\ \A j \in 1..N : fields[j] = call.fields[j] /\ fields[N + j] = -fields[j]
            /\ PlanClosed => fields[2 * N + 1] = fields[1]
            /\ IsPrefix(Commanded, ExpectedCommands(call.fields))
            /\ pc \in {"zero", "png", "csv", "done"} => Commanded = ExpectedCommands(call.fields)

C5_Witness ==
    /\ pc = "done"
    /\ call.close_loop
    /\ Len(call.fields) = 2
    /\ call.fields[1] # call.fields[2]

\* C6: a finished closed-loop sweep over N fields has 2N+1 rows in all four
\* columns, the last row equal to the first; a finished open sweep has 2N rows;
\* the extra row exists only once all 2N set-points have been read.
C6_ClosedLoopRows ==
    LET N == Len(call.fields)
        R == 2 * N + (IF call.close_loop THEN 1 ELSE 0)
    IN  /\ pc = "done" =>
            /\ Len(df.current_A) = R
            /\ Len(df.field_Oe) = R
            /\ Len(df.X) = R
            /\ Len(df.Y) = R
            /\ call.close_loop =>
                /\ df.current_A[R] = df.current_A[1]
                /\ df.field_Oe[R] = df.field_Oe[1]
                /\ df.X[R] = df.X[1]
                /\ df.Y[R] = df.Y[1]
        /\ pc # "idle" =>
            Len(X_array) = Len(senSeen)
                + (IF call.close_loop /\ N > 0 /\ Len(senSeen) = 2 * N THEN 1 ELSE 0)
        /\ Len(Y_array) = Len(X_array)

C6_Witness ==
    /\ pc = "done"
    /\ call.close_loop
    /\ Len(call.fields) = 2
    /\ df.X[1] # df.X[4]
    /\ df.X[5] = df.X[1]

(* ====================== properties of the artifacts =================== *)

\* the files a step creates
NewPaths == (DOMAIN files') \ (DOMAIN files)

\* the base name the call names its artifacts after
BaseName == call.filename

\* C7: a file that exists is never written again, and a file written under a
\* base name that is free takes that name, while one written when the base
\* name is taken and name_(1) is free takes name_(1).
C7_NeverOverwrites ==
    [][/\ \A p \in DOMAIN files : p \in DOMAIN files' /\ files'[p] = files[p]
       /\ \A q \in NewPaths :
            /\ Path(BaseName, q.ext) \notin DOMAIN files => q.name = BaseName
            /\ (/\ Path(BaseName, q.ext) \in DOMAIN files
                /\ Path(Append(BaseName, 1), q.ext) \notin DOMAIN files)
                   => q.name = Append(BaseName, 1)]_vars

C7_Witness ==
    \E p, q \in DOMAIN files :
        /\ files[p].sweep >= 1
        /\ files[q].sweep > files[p].sweep
        /\ files[q].base = files[p].base
        /\ q.ext = p.ext
        /\ p.name = files[p].base
        /\ q.name = Append(p.name, 1)
        /\ \E r \in DOMAIN files : files[r].sweep = 0 /\ r.ext = "png"

\* C8: every file a sweep writes under base name b is b itself or b_(k) for a
\* positive k, with exactly one suffix, and k is the smallest whose path was
\* free: b and every b_(j), j < k, exist (files are never removed).
C8_SmallestSuffix ==
    \A p \in DOMAIN files :
        files[p].sweep >= 1 =>
            \/ p.name = files[p].base
            \/ /\ Len(p.name) = Len(files[p].base) + 1
               /\ SubSeq(p.name, 1, Len(files[p].base)) = files[p].base
               /\ Last(p.name) >= 1
               /\ Path(files[p].base, p.ext) \in DOMAIN files
               /\ \A j \in 1..(Last(p.name) - 1) :
                    Path(Append(files[p].base, j), p.ext) \in DOMAIN files

(* ======================= properties of the knobs ====================== *)

\* the rule of the parameter resolver: the caller's override when one is
\* supplied, the session default when it is omitted (or passed as None)
Resolve(a, default) == IF a.given /\ a.arg # None THEN a.arg[1] ELSE default

\* C9: each of the six knobs a sweep uses is the caller's override when one is
\* supplied and the session default otherwise: the range set at the start of
\* stepping, every wait, and the number of samples of every finished step.
C9_OverrideOrDefault ==
    /\ \A k \in EvIdx :
        /\ events[k].op = "SEN" => events[k].v = Resolve(call.sen, self.sen)
        /\ events[k].op = "sleep_sen_delay" =>
               events[k].v = Resolve(call.sen_delay, self.sen_delay)
        /\ events[k].op = "sleep_rep_delay" =>
               events[k].v = Resolve(call.rep_delay, self.rep_delay)
        /\ events[k].op = "sleep_read_delay" =>
               events[k].v = Resolve(call.read_delay, self.read_delay)
        /\ events[k].op = "sleep_from0delay" =>
               events[k].v = Resolve(call.from0delay, self.from0delay)
    /\ \A j \in 1..Len(senSeen) :
        Cardinality(GetIdx(j)) = Resolve(call.read_reps, self.read_reps)

\* C10: no step of a sweep changes the session defaults stored on the Experiment.
C10_DefaultsUnchanged == [][self' = self]_vars

C10_Witness ==
    /\ pc = "done"
    /\ call.sen.given
    /\ call.sen_delay.given
    /\ call.read_reps.given
    /\ \E k \in EvIdx : events[k].op = "decrease_sensitivity"
    /\ LIA_SEN # self.sen

(* ===================== properties of the failure paths ================ *)

\* C11: a sweep called with an empty field sequence ends in a
\* ConfigurationError raised during INIT, and no set-point command is issued.
C11_EmptyFieldsRejected ==
    (call.fields = <<>> /\ pc # "idle") =>
        /\ pc \in {"ramp", "raised"}
        /\ \A k \in EvIdx : events[k].op # "set_current"
        /\ pc = "raised" => (error.kind = "ConfigurationError" /\ error.stage = "init")

\* C12: when a sweep aborts at some STEPPING index no artifact of that sweep
\* exists: no file was written by it and neither write was attempted.
C12_NoArtifactOnAbort ==
    error.stage = "stepping" =>
        /\ \A p \in DOMAIN files : files[p].sweep # sweepNo
        /\ \A k \in EvIdx : events[k].op \notin {"savefig", "to_csv"}
        /\ df = NoTable

C12_Witness ==
    /\ pc = "raised"
    /\ error.stage = "stepping"
    /\ error.index = 1
    /\ sweepNo = 2
    /\ \E p \in DOMAIN files : files[p].sweep = 1
    /\ \E k \in EvIdx : events[k].op = "getXY_failed"

(* ===================== properties of the event order ================== *)

\* the number of events of one kind logged so far
CountOp(op) == Cardinality({k \in EvIdx : events[k].op = op})

\* the positions of the events of one kind in plan step j
OpIdx(op, j) == {k \in EvIdx : events[k].op = op /\ StepNo(k) = j}

\* the event that may directly follow event k in a sweep
MayFollow(k, b) ==
    LET a == events[k].op
    IN  CASE a = "set_current" /\ StepNo(k) = 0 -> b = "sleep_from0delay"
          [] a = "sleep_from0delay" -> b = "SEN"
          [] a = "SEN" -> b = "set_current"
          [] a = "set_current" /\ StepNo(k) >= 1 -> b = "sleep_read_delay"
          [] a = "sleep_read_delay" ->
                IF get_read_reps(self, args.read_reps) > 0
                THEN b \in {"getXY", "getXY_failed"}
                ELSE b = "append"
          [] a = "getXY" -> b = "sleep_rep_delay"
          [] a = "sleep_rep_delay" ->
                IF Cardinality({m \in GetIdx(StepNo(k)) : m < k})
                       < get_read_reps(self, args.read_reps)
                THEN b \in {"getXY", "getXY_failed"}
                ELSE b \in {"decrease_sensitivity", "append"}
          [] a = "decrease_sensitivity" -> b = "sleep_sen_delay"
          [] a = "sleep_sen_delay" -> b = "append"
          [] a = "append" -> IF call.livefig THEN b = "plot" ELSE b \in {"set_current", "zero"}
          [] a = "plot" -> b \in {"set_current", "zero"}
          [] OTHER -> TRUE

\* C13: STEPPING is strictly sequential: in every step the events are the
\* set-point command, the settle wait, the R reads, the optional step-down and
\* gain-settle wait, the append, the optional plot update, in that order, and
\* the next set-point command comes only after the append (and plot) of the step.
C13_StrictlySequential ==
    /\ \A k \in EvIdx : k < Len(events) => MayFollow(k, events[k + 1].op)
    /\ \A j \in 1..Len(senSeen) :
        /\ Cardinality(GetIdx(j)) = get_read_reps(self, args.read_reps)
        /\ Cardinality(OpIdx("append", j)) = 1
        /\ Cardinality(OpIdx("plot", j)) = (IF call.livefig THEN 1 ELSE 0)
        /\ Cardinality(OpIdx("decrease_sensitivity", j)) <= 1
        /\ \A a \in OpIdx("append", j) :
            \A m \in EvIdx :
                (StepNo(m) = j /\ events[m].op \in {"set_current", "sleep_read_delay", "getXY",
                                                   "decrease_sensitivity", "sleep_sen_delay"})
                    => m < a

C13_Witness ==
    /\ pc = "done"
    /\ call.livefig
    /\ get_read_reps(self, args.read_reps) = 2
    /\ CountOp("decrease_sensitivity") >= 1
    /\ CountOp("set_current") >= 3

\* C14: the ramp commands the first plan set-point and waits the initial-ramp
\* delay before any lock-in read, and it yields no data row: a completed sweep
\* has issued len(plan)+1 set-point commands and acquired len(plan) rows.
C14_RampIsNotARow ==
    LET N == Len(call.fields)
    IN  /\ Len(events) >= 1 =>
            events[1] = Ev("set_current", [n |-> call.fields[1], d |-> K])
        /\ Len(events) >= 2 =>
            events[2] = Ev("sleep_from0delay",
                           IF call.from0delay.given THEN call.from0delay.arg[1]
                           ELSE self.from0delay)
        /\ \A k \in EvIdx : events[k].op \in {"getXY", "getXY_failed"} => k > 2
        /\ pc \in {"zero", "png", "csv", "done"} =>
            /\ CountOp("set_current") = 2 * N + 1
            /\ CountOp("append") = 2 * N
            /\ Len(senSeen) = 2 * N

C14_Witness ==
    /\ pc = "done"
    /\ Len(call.fields) = 2
    /\ ~call.close_loop
    /\ CountOp("set_current") = 5
    /\ Len(df.X) = 4

(* ================== properties of the gain and the buffer ============= *)

\* the range in effect after the readXY call of plan step j
GainAfter(j) == IF j < Len(senSeen) THEN senSeen[j + 1] ELSE LIA_SEN

\* C15: one readXY call changes the range exactly when the averaged ratio is
\* strictly above 0.8, then by exactly one level and with one gain-settle wait;
\* otherwise the range is unchanged and no gain-settle wait occurs; a sweep
\* performs at most len(plan) step-downs.
C15_GainChangesIffOverload ==
    /\ \A j \in 1..Len(senSeen) :
        IF RatioOver08(X_array[j], Y_array[j], senSeen[j])
        THEN /\ LevelOf(GainAfter(j)) = LevelOf(senSeen[j]) + 1
             /\ Cardinality(OpIdx("decrease_sensitivity", j)) = 1
             /\ Cardinality(OpIdx("sleep_sen_delay", j)) = 1
        ELSE /\ GainAfter(j) = senSeen[j]
             /\ OpIdx("decrease_sensitivity", j) = {}
             /\ OpIdx("sleep_sen_delay", j) = {}
    /\ CountOp("decrease_sensitivity") <= 2 * Len(call.fields)
    /\ pc \in {"set", "read"} => LIA_SEN = (IF senSeen = <<>>
                                           THEN get_sen(self, args.sen)
                                           ELSE GainAfter(Len(senSeen)))

C15_Witness ==
    /\ pc = "done"
    /\ Len(senSeen) = 4
    /\ RatioOver08(X_array[1], Y_array[1], senSeen[1])
    /\ ~RatioOver08(X_array[2], Y_array[2], senSeen[2])
    /\ RatioOver08(X_array[3], Y_array[3], senSeen[3])
    /\ CountOp("decrease_sensitivity") = 2

\* the plot updates logged so far, in order
Plots == SelectSeq(events, LAMBDA e : e.op = "plot")

\* C16: after step i (0-based) the X and Y series hold i+1 values each (i+2
\* after the last step of a closed-loop sweep), the series only grow and keep
\* their earlier entries, every plot update gets an x sequence as long as both
\* y sequences, and only the last update of a closed-loop sweep holds the
\* closing point.
C16_BufferGrowsAligned ==
    /\ [](LET N == Len(call.fields)
              closedNow == call.close_loop /\ N > 0 /\ Len(senSeen) = 2 * N
          IN  /\ pc # "idle" =>
                  /\ Len(X_array) = Len(senSeen) + (IF closedNow THEN 1 ELSE 0)
                  /\ Len(Y_array) = Len(senSeen) + (IF closedNow THEN 1 ELSE 0)
              /\ call.livefig => Len(Plots) = Len(senSeen)
              /\ \A j \in 1..Len(Plots) :
                  LET n == IF call.close_loop /\ j = 2 * N THEN j + 1 ELSE j
                  IN  Plots[j].v = <<n, n, n>>)
    /\ [][pc' # "ramp" => (IsPrefix(X_array, X_array') /\ IsPrefix(Y_array, Y_array'))]_vars

C16_Witness ==
    /\ pc = "done"
    /\ call.close_loop
    /\ call.livefig
    /\ Len(call.fields) = 2
    /\ Len(Plots) = 4
    /\ Plots[4].v = <<5, 5, 5>>
    /\ Plots[3].v = <<3, 3, 3>>

(* ================== properties of the end of a sweep ================== *)

\* no instrument call of the current sweep has failed
InstrumentsOk ==
    /\ error.kind # "InstrumentError"
    /\ \A k \in EvIdx : events[k].op # "getXY_failed"

\* C17: a sweep over a non-empty field sequence whose instrument calls all
\* succeed does not end in an exception, and when it is done it has acquired
\* len(plan) points of R reads each and left the drive output at zero.
C17_CleanSweepCompletes ==
    (pc # "idle" /\ call.fields # <<>> /\ InstrumentsOk) =>
        /\ pc # "raised"
        /\ pc = "done" =>
            /\ Len(senSeen) = 2 * Len(call.fields)
            /\ CountOp("getXY") = 2 * Len(call.fields) * get_read_reps(self, args.read_reps)
            /\ PS_current = Zero

\* C18: once every plan set-point has been acquired, the sweep does not end
\* without its .csv table, whatever the livefig, savefig and closefig flags.
C18_TableAlwaysWritten ==
    (/\ call.fields # <<>>
     /\ Len(senSeen) = 2 * Len(call.fields)
     /\ pc \in {"raised", "done"}) =>
        /\ \E p \in DOMAIN files : files[p].sweep = sweepNo /\ p.ext = "csv"
        /\ CountOp("to_csv") = 1

\* C19: the zero-output command comes after the last acquisition and any
\* gain-settle wait of the last step, and before either artifact; nothing but
\* the two artifact writes follows it, and a completed sweep issued it once.
C19_ZeroBetweenLoopAndArtifacts ==
    /\ \A k \in EvIdx : events[k].op = "zero" =>
        /\ Len(senSeen) = 2 * Len(call.fields)
        /\ \A m \in 1..(k - 1) : events[m].op \notin {"savefig", "to_csv", "zero"}
        /\ \A m \in (k + 1)..Len(events) : events[m].op \in {"savefig", "to_csv"}
    /\ pc \in {"png", "csv", "done"} => (CountOp("zero") = 1 /\ PS_current = Zero)

C19_Witness ==
    /\ pc = "done"
    /\ OpIdx("sleep_sen_delay", 2 * Len(call.fields)) # {}
    /\ CountOp("savefig") = 1
    /\ CountOp("to_csv") = 1
    /\ \E k \in EvIdx : events[k].op = "zero" /\ events[k + 1].op = "savefig"

(* ============== independence of the closing-point option ============== *)

\* what the instruments were asked to do, in order
Instr == SelectSeq(events, LAMBDA e : e.op \in {"set_current", "SEN", "getXY",
                                                "decrease_sensitivity", "zero"})

\* what the lock-in answered, in order
Resp == [k \in 1..Len(SelectSeq(events, LAMBDA e : e.op = "getXY")) |->
            <<SelectSeq(events, LAMBDA e : e.op = "getXY")[k].v.X,
              SelectSeq(events, LAMBDA e : e.op = "getXY")[k].v.Y>>]

\* the instrument requests of plan steps j.. and the final zero command, as a
\* function of the plan cs, the range, the answers and the repetitions alone
RECURSIVE Replay(_, _, _, _, _)
Replay(cs, j, sen, resp, reps) ==
    IF j > Len(cs) THEN <<Ev("zero", 0)>>
    ELSE LET at(r) == resp[(j - 1) * reps + r]
             xs == [r \in 1..reps |-> at(r)[1]]
             ys == [r \in 1..reps |-> at(r)[2]]
             over == /\ reps > 0
                     /\ \/ 5 * Abs(SumSeq(xs)) > 4 * sen * reps
                        \/ 5 * Abs(SumSeq(ys)) > 4 * sen * reps
         IN  <<Ev("set_current", cs[j])>>
             \o [r \in 1..reps |-> Ev("getXY", [sen |-> sen, X |-> at(r)[1], Y |-> at(r)[2]])]
             \o (IF over THEN <<Ev("decrease_sensitivity", 0)>> ELSE <<>>)
             \o Replay(cs, j + 1, IF over THEN decrease_sensitivity(sen) ELSE sen, resp, reps)

\* the requests of a whole sweep; close_loop is not among the inputs
Expected ==
    LET cs == [k \in 1..(2 * Len(call.fields)) |->
                  [n |-> IF k <= Len(call.fields) THEN call.fields[k]
                         ELSE -call.fields[k - Len(call.fields)],
                   d |-> K]]
    IN  <<Ev("set_current", cs[1]), Ev("SEN", get_sen(self, args.sen))>>
        \o Replay(cs, 1, get_sen(self, args.sen), Resp, get_read_reps(self, args.read_reps))

\* C20: the set-point commands, lock-in reads and gain step-downs of a sweep
\* are determined by the fields, the overrides and the lock-in's answers, with
\* or without close_loop; the closing point is a copy of row 0 that is neither
\* commanded nor measured.
C20_CloseLoopDoesNotTouchInstruments ==
    CountOp("zero") = 1 =>
        /\ Len(Instr) = Len(Expected)
        /\ \A k \in 1..Len(Instr) :
            /\ Instr[k].op = Expected[k].op
            /\ Instr[k].v = Expected[k].v
        /\ call.close_loop =>
            /\ Len(X_array) = 2 * Len(call.fields) + 1
            /\ X_array[Len(X_array)] = X_array[1]
            /\ Y_array[Len(Y_array)] = Y_array[1]
            /\ Len(Commanded) = 2 * Len(call.fields) + 1
            /\ Len(Resp) = 2 * Len(call.fields) * get_read_reps(self, args.read_reps)
        /\ (pc = "done" /\ call.close_loop) =>
            /\ df.current_A[Len(df.current_A)] = df.current_A[1]
            /\ df.field_Oe[Len(df.field_Oe)] = df.field_Oe[1]

C20_Witness ==
    /\ pc = "done"
    /\ call.close_loop
    /\ Len(call.fields) = 2
    /\ CountOp("decrease_sensitivity") >= 1
    /\ Len(Instr) = Len(Expected)
    /\ Len(df.X) = 5

====
